---------------------------- MODULE Spec2Model ----------------------------
(***************************************************************************)
(* Gorilla (double-delta / XOR) compression of src/src/gorilla.c.          *)
(*                                                                         *)
(* A 64-bit word (u_int64_t, int64_t, the raw pattern of a double) is the  *)
(* set of the positions of its 1-bits, a subset of 0..63; bit 0 is the     *)
(* least significant.  The payload `data` is the set of the global bit     *)
(* positions that are 1: bit i of bin k is global bit 64*k + i.  Small     *)
(* quantities (idx, numSamples, leading, trailing, block sizes, bit        *)
(* counts) are integers.                                                   *)
(***************************************************************************)
EXTENDS Integers, Sequences, FiniteSets, TLC

\* ------------------------------------------------------------ constants

BIN_NUM_VALUES == 64
BINW == BIN_NUM_VALUES

DOUBLE_LEADING == 5
DOUBLE_BLOCK_SIZE == 6
DOUBLE_BLOCK_ADJUST == 1

CMPR_L1 == 5
CMPR_L2 == 8
CMPR_L3 == 11
CMPR_L4 == 15
CMPR_L5 == 32

CR_OK == "CR_OK"
CR_ERR == "CR_ERR"
CR_END == "CR_END"

\* ------------------------------------------------- 64-bit word arithmetic

WordBits == 0..63

Zero == {}
One == {0}

SetMax(S) == CHOOSE m \in S : \A k \in S : k <= m
SetMin(S) == CHOOSE m \in S : \A k \in S : m <= k

\* The word of a small natural number n < 2^16.
FromNat(n) == {i \in 0..15 : (n \div (2 ^ i)) % 2 = 1}

\* The value of a word that has no bit at or above position 16.
RECURSIVE ToNat(_)
ToNat(x) == IF x = {} THEN 0
            ELSE LET m == SetMax(x) IN (2 ^ m) + ToNat(x \ {m})

\* x + y + carry (mod 2^64), from bit i upwards.  Once neither carry nor bits
\* of y remain, the rest of the sum is the rest of x.
RECURSIVE AddFrom(_, _, _, _)
AddFrom(x, y, i, carry) ==
    IF i > 63 THEN {}
    ELSE IF carry = 0 /\ \A j \in y : j < i THEN {j \in x : j >= i}
    ELSE LET s == (IF i \in x THEN 1 ELSE 0) + (IF i \in y THEN 1 ELSE 0) + carry
         IN  (IF s % 2 = 1 THEN {i} ELSE {}) \cup AddFrom(x, y, i + 1, s \div 2)

\* x - y - borrow (mod 2^64), from bit i upwards.  Once neither borrow nor bits
\* of y remain, the rest of the difference is the rest of x.
RECURSIVE SubFrom(_, _, _, _)
SubFrom(x, y, i, borrow) ==
    IF i > 63 THEN {}
    ELSE IF borrow = 0 /\ \A j \in y : j < i THEN {j \in x : j >= i}
    ELSE LET s == (IF i \in x THEN 1 ELSE 0) - (IF i \in y THEN 1 ELSE 0) - borrow
         IN  (IF s % 2 = 1 THEN {i} ELSE {}) \cup SubFrom(x, y, i + 1, IF s < 0 THEN 1 ELSE 0)

U64Add(x, y) == AddFrom(x, y, 0, 0)
U64Sub(x, y) == SubFrom(x, y, 0, 0)
U64Neg(x) == U64Sub(Zero, x)
U64Xor(x, y) == (x \ y) \cup (y \ x)
U64Shl(x, n) == {i + n : i \in {j \in x : j + n <= 63}}
U64Shr(x, n) == {i - n : i \in {j \in x : j >= n}}

\* unsigned x <= y
U64Le(x, y) == IF x = y THEN TRUE ELSE SetMax(U64Xor(x, y)) \in y
\* signed (int64_t) x <= y
I64Le(x, y) == IF (63 \in x) # (63 \in y) THEN 63 \in x ELSE U64Le(x, y)

LeadingZeros64(x) == 63 - SetMax(x)
TrailingZeros64(x) == SetMin(x)

\* --------------------------------------------------------- bit helpers

BIT(bit) == IF bit > 63 THEN Zero ELSE {bit}

\* MASK(bits) = BIT(bits) - 1, tabulated once for bits in 0..64.
MASK_Table == [bits \in 0..64 |-> U64Sub(BIT(bits), One)]

MASK(bits) == MASK_Table[bits]

LSB(x, bits) == x \cap MASK(bits)

int2bin(x, l) == LSB(x, l)

\* (a decoder that forgets the sign extension)
bin2intNoSign(bin, l) == bin

bin2int(bin, l) ==
    LET pos == (bin \cap BIT(l - 1)) = {}
    IN  IF pos THEN bin ELSE U64Sub(bin, BIT(l))

\* Bin_MaxVal(nbits) = BIT(nbits - 1) - 1 and Bin_MinVal(nbits) = -BIT(nbits - 1),
\* tabulated once for nbits in 1..64.
Bin_MaxVal_Table == [nbits \in 1..64 |-> U64Sub(BIT(nbits - 1), One)]

Bin_MinVal_Table == [nbits \in 1..64 |-> U64Neg(BIT(nbits - 1))]

Bin_MaxVal(nbits) == Bin_MaxVal_Table[nbits]

Bin_MinVal(nbits) == Bin_MinVal_Table[nbits]

localbit(bit) == bit % BINW

\* (a range test that excludes the largest value of the bucket)
Bin_InRangeStrict(x, nbits) ==
    I64Le(Bin_MinVal(nbits), x) /\ I64Le(x, Bin_MaxVal(nbits)) /\ x # Bin_MaxVal(nbits)

Bin_InRange(x, nbits) == I64Le(Bin_MinVal(nbits), x) /\ I64Le(x, Bin_MaxVal(nbits))

\* The bin (a word) that holds global bit `bit` of the bit set `bins`.
Bins_bitbin(bins, bit) ==
    LET k == bit \div BINW
    IN  {g - BINW * k : g \in {h \in bins : h \div BINW = k}}

Bins_bitoff(bins, bit) == (Bins_bitbin(bins, bit) \cap BIT(localbit(bit))) = {}

Bins_biton(bins, bit) == ~Bins_bitoff(bins, bit)

\* `bins` with word w OR-ed into bin k.
OrIntoBin(bins, k, w) == bins \cup {BINW * k + i : i \in w}

\* (an appendBits that skips an all-zero write, cursor included)
appendBitsSkipZero(c, data, dataLen) ==
    IF LSB(data, dataLen) = Zero
    THEN c
    ELSE LET k == c.idx \div BINW
             lbit == localbit(c.idx)
             available == BINW - lbit
             bins == IF available >= dataLen
                     THEN OrIntoBin(c.data, k, U64Shl(LSB(data, dataLen), lbit))
                     ELSE OrIntoBin(OrIntoBin(c.data, k, U64Shl(data, lbit)),
                                    k + 1, LSB(U64Shr(data, available), lbit))
         IN  [c EXCEPT !.data = bins,
                       !.idx = c.idx + dataLen,
                       !.hiwater = IF c.idx + dataLen > c.hiwater
                                   THEN c.idx + dataLen ELSE c.hiwater]

\* appendBits on the chunk c: bins = c.data, bit = &c.idx.  hiwater records the
\* highest cursor any appendBits reached.
appendBits(c, data, dataLen) ==
    LET k == c.idx \div BINW
        lbit == localbit(c.idx)
        available == BINW - lbit
        bins == IF available >= dataLen
                THEN OrIntoBin(c.data, k, U64Shl(LSB(data, dataLen), lbit))
                ELSE OrIntoBin(OrIntoBin(c.data, k, U64Shl(data, lbit)),
                               k + 1, LSB(U64Shr(data, available), lbit))
    IN  [c EXCEPT !.data = bins,
                  !.idx = c.idx + dataLen,
                  !.hiwater = IF c.idx + dataLen > c.hiwater
                              THEN c.idx + dataLen ELSE c.hiwater]

\* readBits: the word read at `bit`; the caller advances the cursor by dataLen.
readBits(bins, bit, dataLen) ==
    LET bin0 == Bins_bitbin(bins, bit)
        bin1 == Bins_bitbin(bins, bit + BINW)
        lbit == localbit(bit)
        available == BINW - lbit
    IN  IF available >= dataLen
        THEN LSB(U64Shr(bin0, lbit), dataLen)
        ELSE LET left == dataLen - available
             IN  LSB(U64Shr(bin0, lbit), available)
                 \cup U64Shl(LSB(bin1, left), available)

\* (a space test that never refuses)
isSpaceAvailableAlways(chunk, size) == TRUE

isSpaceAvailable(chunk, size) ==
    LET available == (chunk.size * 8) - chunk.idx
    IN  size <= available


\* ---------------------------------------------------------------- APPEND

\* The tail of appendInteger: the rolling timestamp state.
\* (a tail that forgets the new delta)
IntegerDoneKeepDelta(c, curDelta, timestamp) == [c EXCEPT !.prevTimestamp = timestamp]

IntegerDone(c, curDelta, timestamp) ==
    [c EXCEPT !.prevTimestampDelta = curDelta, !.prevTimestamp = timestamp]

\* One bucket of appendInteger: CHECKSPACE(n + l + 1), the n prefix bits, then
\* l bits of payload.
IntegerBucket(chunk, n, prefix, l, payload, curDelta, timestamp) ==
    IF ~isSpaceAvailable(chunk, n + l + 1)
    THEN [r |-> CR_ERR, c |-> chunk]
    ELSE [r |-> CR_OK,
          c |-> IntegerDone(appendBits(appendBits(chunk, prefix, n), payload, l),
                            curDelta, timestamp)]

appendInteger(chunk, timestamp) ==
    LET curDelta == U64Sub(timestamp, chunk.prevTimestamp)
        doubleDelta == U64Sub(curDelta, chunk.prevTimestampDelta)
    IN  IF doubleDelta = Zero
        THEN IF ~isSpaceAvailable(chunk, 1 + 1)
             THEN [r |-> CR_ERR, c |-> chunk]
             ELSE [r |-> CR_OK,
                   c |-> IntegerDone(appendBits(chunk, Zero, 1), curDelta, timestamp)]
        ELSE IF Bin_InRange(doubleDelta, CMPR_L1)
        THEN IntegerBucket(chunk, 2, FromNat(1), CMPR_L1,
                           int2bin(doubleDelta, CMPR_L1), curDelta, timestamp)
        ELSE IF Bin_InRange(doubleDelta, CMPR_L2)
        THEN IntegerBucket(chunk, 3, FromNat(3), CMPR_L2,
                           int2bin(doubleDelta, CMPR_L2), curDelta, timestamp)
        ELSE IF Bin_InRange(doubleDelta, CMPR_L3)
        THEN IntegerBucket(chunk, 4, FromNat(7), CMPR_L3,
                           int2bin(doubleDelta, CMPR_L3), curDelta, timestamp)
        ELSE IF Bin_InRange(doubleDelta, CMPR_L4)
        THEN IntegerBucket(chunk, 5, FromNat(15), CMPR_L4,
                           int2bin(doubleDelta, CMPR_L4), curDelta, timestamp)
        ELSE IF Bin_InRange(doubleDelta, CMPR_L5)
        THEN IntegerBucket(chunk, 6, FromNat(31), CMPR_L5,
                           int2bin(doubleDelta, CMPR_L5), curDelta, timestamp)
        ELSE IntegerBucket(chunk, 6, FromNat(63), 64, doubleDelta, curDelta, timestamp)

\* The test of appendFloat that selects the previous block parameters.
\* (a test that wants strictly more trailing zeros than the previous block)
UsePreviousOffByOne(leading, trailing, prevLeading, prevTrailing, expectedSize, prevBlockInfoSize) ==
    leading >= prevLeading /\ trailing > prevTrailing /\ expectedSize > prevBlockInfoSize

\* (a test that never selects the block parameters a chunk starts with)
UsePreviousNotInitial(leading, trailing, prevLeading, prevTrailing, expectedSize, prevBlockInfoSize) ==
    /\ prevLeading + prevTrailing > 0
    /\ leading >= prevLeading
    /\ trailing >= prevTrailing
    /\ expectedSize > prevBlockInfoSize

UsePrevious(leading, trailing, prevLeading, prevTrailing, expectedSize, prevBlockInfoSize) ==
    leading >= prevLeading /\ trailing >= prevTrailing /\ expectedSize > prevBlockInfoSize

\* The clamp of the leading-zero count to the 5-bit field.
ClampLeading(leading) == IF leading > 31 THEN 31 ELSE leading

\* appendFloat.  r is the result, or "ASSERT" when one of its assertions fails;
\* br names the branch taken: "same" (XOR = 0), "prev" (previous block
\* parameters), "new" (new block parameters), "none" (no space, or assertion).
appendFloat(chunk, value) ==
    LET xorWithPrevious == U64Xor(value, chunk.prevValue)
    IN  IF xorWithPrevious = Zero
        THEN [r |-> CR_OK, c |-> appendBits(chunk, Zero, 1), br |-> "same"]
        ELSE
        LET c1 == appendBits(chunk, One, 1)
            leading == ClampLeading(LeadingZeros64(xorWithPrevious))
            trailing == TrailingZeros64(xorWithPrevious)
            prevLeading == chunk.prevLeading
            prevTrailing == chunk.prevTrailing
            blockSize == BINW - leading - trailing
            expectedSize == DOUBLE_LEADING + DOUBLE_BLOCK_SIZE + blockSize
            prevBlockInfoSize == BINW - prevLeading - prevTrailing
        IN  IF ~(leading + trailing <= BINW) \/ ~(prevLeading + prevTrailing <= BINW)
            THEN [r |-> "ASSERT", c |-> c1, br |-> "none"]
            ELSE IF UsePrevious(leading, trailing, prevLeading, prevTrailing,
                                expectedSize, prevBlockInfoSize)
            THEN IF ~isSpaceAvailable(c1, prevBlockInfoSize + 1)
                 THEN [r |-> CR_ERR, c |-> c1, br |-> "none"]
                 ELSE [r |-> CR_OK,
                       c |-> [appendBits(appendBits(c1, Zero, 1),
                                         U64Shr(xorWithPrevious, prevTrailing),
                                         prevBlockInfoSize)
                                EXCEPT !.prevValue = value],
                       br |-> "prev"]
            ELSE IF ~isSpaceAvailable(c1, expectedSize + 1)
                 THEN [r |-> CR_ERR, c |-> c1, br |-> "none"]
                 ELSE [r |-> CR_OK,
                       c |-> [appendBits(
                                appendBits(
                                  appendBits(
                                    appendBits(c1, One, 1),
                                    FromNat(leading), DOUBLE_LEADING),
                                  FromNat(blockSize - DOUBLE_BLOCK_ADJUST), DOUBLE_BLOCK_SIZE),
                                U64Shr(xorWithPrevious, trailing), blockSize)
                                EXCEPT !.prevLeading = leading,
                                       !.prevTrailing = trailing,
                                       !.prevValue = value],
                       br |-> "new"]

\* The rollback of Compressed_Append after a step reported no space.
\* (a rollback that forgets the cursor)
RestoreNoIdx(c, idx, prevTimestamp, prevTimestampDelta) ==
    [c EXCEPT !.prevTimestamp = prevTimestamp,
              !.prevTimestampDelta = prevTimestampDelta]

Restore(c, idx, prevTimestamp, prevTimestampDelta) ==
    [c EXCEPT !.idx = idx,
              !.prevTimestamp = prevTimestamp,
              !.prevTimestampDelta = prevTimestampDelta]

\* The first sample of a chunk: stored verbatim, outside the bit stream.
FirstSample(chunk, timestamp, value) ==
    [chunk EXCEPT !.baseValue = value, !.prevValue = value,
                  !.baseTimestamp = timestamp, !.prevTimestamp = timestamp,
                  !.prevTimestampDelta = Zero]

\* Compressed_Append: r is the result, c the chunk after the call; tsBits is the
\* number of bits appendInteger wrote and br the branch of appendFloat.
Compressed_Append(chunk, timestamp, value) ==
    IF chunk.numSamples = 0
    THEN [r |-> CR_OK,
          c |-> [FirstSample(chunk, timestamp, value) EXCEPT !.numSamples = 1],
          tsBits |-> 0, br |-> "first"]
    ELSE
    LET idx == chunk.idx
        prevTimestamp == chunk.prevTimestamp
        prevTimestampDelta == chunk.prevTimestampDelta
        ri == appendInteger(chunk, timestamp)
    IN  IF ri.r # CR_OK
        THEN [r |-> CR_END,
              c |-> Restore(ri.c, idx, prevTimestamp, prevTimestampDelta),
              tsBits |-> 0, br |-> "none"]
        ELSE LET rf == appendFloat(ri.c, value)
             IN  IF rf.r = "ASSERT"
                 THEN [r |-> "ASSERT", c |-> rf.c,
                       tsBits |-> ri.c.idx - idx, br |-> "none"]
                 ELSE IF rf.r # CR_OK
                 THEN [r |-> CR_END,
                       c |-> Restore(rf.c, idx, prevTimestamp, prevTimestampDelta),
                       tsBits |-> ri.c.idx - idx, br |-> "none"]
                 ELSE [r |-> CR_OK,
                       c |-> [rf.c EXCEPT !.numSamples = chunk.numSamples + 1],
                       tsBits |-> ri.c.idx - idx, br |-> rf.br]

\* ------------------------------------------------------------------ READ

\* readInteger over the bits `bins`: the iterator after the call (idx,
\* prevDelta and prevTS updated) and the timestamp returned.
readInteger(bins, iter) ==
    LET bit == iter.idx
        r == IF Bins_bitoff(bins, bit)
             THEN [dd |-> Zero, idx |-> bit + 1]
             ELSE IF Bins_bitoff(bins, bit + 1)
             THEN [dd |-> bin2int(readBits(bins, bit + 2, CMPR_L1), CMPR_L1),
                   idx |-> bit + 2 + CMPR_L1]
             ELSE IF Bins_bitoff(bins, bit + 2)
             THEN [dd |-> bin2int(readBits(bins, bit + 3, CMPR_L2), CMPR_L2),
                   idx |-> bit + 3 + CMPR_L2]
             ELSE IF Bins_bitoff(bins, bit + 3)
             THEN [dd |-> bin2int(readBits(bins, bit + 4, CMPR_L3), CMPR_L3),
                   idx |-> bit + 4 + CMPR_L3]
             ELSE IF Bins_bitoff(bins, bit + 4)
             THEN [dd |-> bin2int(readBits(bins, bit + 5, CMPR_L4), CMPR_L4),
                   idx |-> bit + 5 + CMPR_L4]
             ELSE IF Bins_bitoff(bins, bit + 5)
             THEN [dd |-> bin2int(readBits(bins, bit + 6, CMPR_L5), CMPR_L5),
                   idx |-> bit + 6 + CMPR_L5]
             ELSE [dd |-> readBits(bins, bit + 6, 64), idx |-> bit + 6 + 64]
        prevDelta == U64Add(iter.prevDelta, r.dd)
        prevTS == U64Add(iter.prevTS, prevDelta)
    IN  [it |-> [iter EXCEPT !.idx = r.idx, !.prevDelta = prevDelta, !.prevTS = prevTS],
         v |-> prevTS]

\* readFloat over the bits `bins`: r is "OK", or "ASSERT" when one of its
\* assertions fails; it is the iterator after the call and v the value returned.
readFloat(bins, iter) ==
    IF Bins_bitoff(bins, iter.idx)
    THEN [r |-> "OK", it |-> [iter EXCEPT !.idx = iter.idx + 1], v |-> iter.prevValue]
    ELSE
    LET usePreviousBlockInfo == Bins_bitoff(bins, iter.idx + 1)
        idx2 == iter.idx + 2
    IN  IF usePreviousBlockInfo
        THEN IF ~(iter.prevLeading + iter.prevTrailing <= BINW)
             THEN [r |-> "ASSERT", it |-> [iter EXCEPT !.idx = idx2], v |-> Zero]
             ELSE LET prevBlockInfo == BINW - iter.prevLeading - iter.prevTrailing
                      xorValue == U64Shl(readBits(bins, idx2, prevBlockInfo),
                                         iter.prevTrailing)
                      rv == U64Xor(xorValue, iter.prevValue)
                  IN  [r |-> "OK",
                       it |-> [iter EXCEPT !.idx = idx2 + prevBlockInfo,
                                           !.prevValue = rv],
                       v |-> rv]
        ELSE LET leading == ToNat(readBits(bins, idx2, DOUBLE_LEADING))
                 blocksize == ToNat(readBits(bins, idx2 + DOUBLE_LEADING, DOUBLE_BLOCK_SIZE))
                              + DOUBLE_BLOCK_ADJUST
                 idx3 == idx2 + DOUBLE_LEADING + DOUBLE_BLOCK_SIZE
             IN  IF ~(leading + blocksize <= BINW)
                 THEN [r |-> "ASSERT", it |-> [iter EXCEPT !.idx = idx3], v |-> Zero]
                 ELSE LET trailing == BINW - leading - blocksize
                          xorValue == U64Shl(readBits(bins, idx3, blocksize), trailing)
                          rv == U64Xor(xorValue, iter.prevValue)
                      IN  [r |-> "OK",
                           it |-> [iter EXCEPT !.idx = idx3 + blocksize,
                                               !.prevLeading = leading,
                                               !.prevTrailing = trailing,
                                               !.prevValue = rv],
                           v |-> rv]

\* Compressed_ReadNext: r is CR_OK, CR_END or "ASSERT"; it is the iterator
\* after the call; (timestamp, value) is the sample returned when r = CR_OK.
Compressed_ReadNext(chunk, bins, iter) ==
    IF iter.count >= chunk.numSamples
    THEN [r |-> CR_END, it |-> iter, timestamp |-> Zero, value |-> Zero]
    ELSE IF iter.count = 0
    THEN [r |-> CR_OK, it |-> [iter EXCEPT !.count = 1],
          timestamp |-> chunk.baseTimestamp, value |-> chunk.baseValue]
    ELSE LET ri == readInteger(bins, iter)
             rf == readFloat(bins, ri.it)
         IN  IF rf.r = "ASSERT"
             THEN [r |-> "ASSERT", it |-> rf.it, timestamp |-> ri.v, value |-> Zero]
             ELSE [r |-> CR_OK,
                   it |-> [rf.it EXCEPT !.count = iter.count + 1,
                                        !.prevTS = ri.v, !.prevValue = rf.v],
                   timestamp |-> ri.v, value |-> rf.v]

\* ------------------------------------------- construction (not in gorilla.c)

\* A chunk of `size` bytes: the buffer and every field zero-initialised.
\* hiwater is a history field: the highest cursor any appendBits reached.
Compressed_NewChunk(size) ==
    [size |-> size, numSamples |-> 0, baseTimestamp |-> Zero, baseValue |-> Zero,
     idx |-> 0, prevTimestamp |-> Zero, prevTimestampDelta |-> Zero,
     prevValue |-> Zero, prevLeading |-> 0, prevTrailing |-> 0,
     data |-> {}, hiwater |-> 0]

\* A fresh iterator: cursor at bit 0, count 0, rolling state mirroring the
\* encoder's initial state for this chunk.
Compressed_NewChunkIterator(chunk) ==
    [idx |-> 0, count |-> 0, prevTS |-> chunk.baseTimestamp, prevDelta |-> Zero,
     prevValue |-> chunk.baseValue, prevLeading |-> 0, prevTrailing |-> 0]

\* ------------------------------------------------------------- the system

\* Bounds of the model: the number of Compressed_Append calls in a behaviour of
\* Spec, of SpecXor and of SpecTs.
MaxAppends == 3
MaxXorAppends == 4
MaxTsAppends == 3

\* Timestamp increments 2^31 - 1, 2^31 and 2^31 + 1.
D2p31m1 == 0..30
D2p31 == {31}
D2p31p1 == {0, 31}

\* Raw 64-bit patterns of doubles: 0.0, 1.0, a negative NaN with a payload
\* (its XOR with 0.0 or 1.0 has 64 significant bits), a pattern whose XOR with
\* 0.0 has 53 significant bits, the smallest denormal (63 leading zeros), and
\* a pattern whose XOR with 0.0 has 54 significant bits.
V_Zero == Zero
V_One == 52..61
V_NaN == {0} \cup (51..63)
V_53 == {0, 52}
V_Denormal == {0}
V_54 == {0, 53}

\* The inputs of Spec: chunk capacities in bytes, timestamp increments, values.
ChunkSizes == {8, 16}
Deltas == {Zero, One, D2p31m1}
Values == {V_Zero, V_One, V_NaN}

\* The inputs of SpecXor.
XorChunkSizes == {8, 16}
XorDeltas == {Zero, D2p31m1}
XorValues == {V_Zero, V_53, V_54, V_Denormal}

\* The inputs of SpecTs: increments around the limits of every bucket.
TsChunkSizes == {24}
TsDeltas == {Zero} \cup {FromNat(n) : n \in {15, 16, 17, 127, 128, 129, 1023, 1024, 1025,
                                            16383, 16384, 16385}}
                   \cup {D2p31m1, D2p31, D2p31p1}
TsValues == {V_One}

NoIterator ==
    [idx |-> 0, count |-> 0, prevTS |-> Zero, prevDelta |-> Zero,
     prevValue |-> Zero, prevLeading |-> 0, prevTrailing |-> 0]

NoCall(c) ==
    [op |-> "none", r |-> "none", pre |-> c, timestamp |-> Zero, value |-> Zero,
     tsBits |-> 0, br |-> "none", preIdx |-> 0, preWindowed |-> FALSE]

VARIABLES
    chunk,      \* the CompressedChunk
    iter,       \* the Compressed_Iterator
    phase,      \* "append", "read", "end" (iterator exhausted), "abort" (assertion
                \* failed), "wild" (the iterator read beyond the buffer)
    calls,      \* number of Compressed_Append calls made
    accepted,   \* history: the samples whose append returned CR_OK, in order
    rejected,   \* history: whether some append returned CR_END
    windowed,   \* history: whether some accepted append emitted a new window
    out,        \* history: the samples the iterator returned, in order
    last        \* history: the last call, its arguments, result and pre-state

vars == <<chunk, iter, phase, calls, accepted, rejected, windowed, out, last>>

InitFrom(sizes) ==
    /\ chunk \in {Compressed_NewChunk(size) : size \in sizes}
    /\ iter = NoIterator
    /\ phase = "append"
    /\ calls = 0
    /\ accepted = <<>>
    /\ rejected = FALSE
    /\ windowed = FALSE
    /\ out = <<>>
    /\ last = NoCall(chunk)

\* One call of Compressed_Append with a timestamp not below the previous one.
AppendFrom(ds, vs, maxCalls) ==
    /\ phase = "append"
    /\ calls < maxCalls
    /\ \E delta \in ds, value \in vs :
         \E timestamp \in {U64Add(chunk.prevTimestamp, delta)} :
         \E res \in {Compressed_Append(chunk, timestamp, value)} :
             /\ U64Le(chunk.prevTimestamp, timestamp)
             /\ chunk' = res.c
             /\ phase' = IF res.r = "ASSERT" THEN "abort" ELSE "append"
             /\ accepted' = IF res.r = CR_OK
                            THEN Append(accepted, <<timestamp, value>>)
                            ELSE accepted
             /\ rejected' = (rejected \/ res.r = CR_END)
             /\ windowed' = (windowed \/ (res.r = CR_OK /\ res.br = "new"))
             /\ last' = [op |-> "append", r |-> res.r, pre |-> chunk,
                         timestamp |-> timestamp, value |-> value,
                         tsBits |-> res.tsBits, br |-> res.br, preIdx |-> 0,
                         preWindowed |-> windowed]
    /\ calls' = calls + 1
    /\ UNCHANGED <<iter, out>>

AppendSample == AppendFrom(Deltas, Values, MaxAppends)

AppendXor == AppendFrom(XorDeltas, XorValues, MaxXorAppends)

AppendTs == AppendFrom(TsDeltas, TsValues, MaxTsAppends)

\* A fresh iterator on the chunk; no append follows.
NewIterator ==
    /\ phase = "append"
    /\ iter' = Compressed_NewChunkIterator(chunk)
    /\ phase' = "read"
    /\ last' = [NoCall(chunk) EXCEPT !.op = "iterator"]
    /\ UNCHANGED <<chunk, calls, accepted, rejected, windowed, out>>

\* One call of Compressed_ReadNext.  A call whose cursor ends beyond the buffer
\* has read bits that are not the chunk's: undefined behaviour, after which
\* nothing is known ("wild").
ReadNext ==
    /\ phase = "read"
    /\ \E res \in {Compressed_ReadNext(chunk, chunk.data, iter)} :
         \E wild \in {res.it.idx > chunk.size * 8} :
             /\ iter' = res.it
             /\ phase' = CASE wild -> "wild"
                           [] res.r = CR_OK -> "read"
                           [] res.r = CR_END -> "end"
                           [] OTHER -> "abort"
             /\ out' = IF res.r = CR_OK /\ ~wild
                       THEN Append(out, <<res.timestamp, res.value>>)
                       ELSE out
             /\ last' = [op |-> "read", r |-> IF wild THEN "wild" ELSE res.r,
                         pre |-> chunk,
                         timestamp |-> res.timestamp, value |-> res.value,
                         tsBits |-> 0, br |-> "none", preIdx |-> iter.idx,
                         preWindowed |-> windowed]
    /\ UNCHANGED <<chunk, calls, accepted, rejected, windowed>>

Init == InitFrom(ChunkSizes)
Next == AppendSample \/ NewIterator \/ ReadNext
Spec == Init /\ [][Next]_vars

InitXor == InitFrom(XorChunkSizes)
NextXor == AppendXor \/ NewIterator \/ ReadNext
SpecXor == InitXor /\ [][NextXor]_vars

InitTs == InitFrom(TsChunkSizes)
NextTs == AppendTs \/ NewIterator \/ ReadNext
SpecTs == InitTs /\ [][NextTs]_vars


\* ------------------------------------------------------------- properties

\* The last call was Compressed_Append and returned r.
Appended(r) == last.op = "append" /\ last.r = r

\* The last call was Compressed_Append on a chunk that held a sample already,
\* and it returned CR_OK.
Encoded == Appended(CR_OK) /\ last.pre.numSamples > 0

\* The bits of `bins` below / at or above position g.
BitsBelow(bins, g) == {h \in bins : h < g}
BitsFrom(bins, g) == {h \in bins : h >= g}

IsPrefix(p, q) == Len(p) <= Len(q) /\ p = SubSeq(q, 1, Len(p))

\* C1: round-trip identity.  When every append so far returned CR_OK, no call
\* fails an assertion, a fresh iterator returns the accepted samples in
\* insertion order, bit for bit, and returns CR_END only after all of them.
C1_RoundTrip ==
    ~rejected =>
        /\ phase \notin {"abort", "wild"}
        /\ chunk.numSamples = Len(accepted)
        /\ phase \in {"read", "end"} =>
               /\ IsPrefix(out, accepted)
               /\ iter.count = Len(out)
        /\ phase = "end" => out = accepted

\* C1 witness: three samples, the last one the NaN pattern, encoded across the
\* boundary of the first bin and read back to the end.
C1_Witness ==
    /\ ~rejected
    /\ phase = "end"
    /\ Len(out) = 3
    /\ out[3][2] = V_NaN
    /\ out[2][1] # out[3][1]
    /\ chunk.idx > BINW

\* C2: transactional append.  When Compressed_Append returns CR_END, numSamples,
\* idx, prevTimestamp, prevTimestampDelta, prevValue, prevLeading, prevTrailing
\* and the first idx bits of the payload are what they were before the call.
C2_Transactional ==
    Appended(CR_END) =>
        /\ chunk.numSamples = last.pre.numSamples
        /\ chunk.idx = last.pre.idx
        /\ chunk.prevTimestamp = last.pre.prevTimestamp
        /\ chunk.prevTimestampDelta = last.pre.prevTimestampDelta
        /\ chunk.prevValue = last.pre.prevValue
        /\ chunk.prevLeading = last.pre.prevLeading
        /\ chunk.prevTrailing = last.pre.prevTrailing
        /\ BitsBelow(chunk.data, chunk.idx) = BitsBelow(last.pre.data, last.pre.idx)

\* C2 witness: the double step found no space, after the integer step had
\* moved the cursor and the rolling timestamp state of a non-empty stream.
C2_Witness ==
    /\ Appended(CR_END)
    /\ last.tsBits > 1
    /\ last.pre.idx > 0
    /\ last.timestamp # last.pre.prevTimestamp

\* C3: a failed append writes no bits.  When Compressed_Append returns CR_END,
\* the payload bits at or beyond the pre-call idx are what they were.
C3_FailedAppendWritesNoBits ==
    Appended(CR_END) =>
        BitsFrom(chunk.data, last.pre.idx) = BitsFrom(last.pre.data, last.pre.idx)

\* The delta-of-delta of the last append, from its arguments and pre-state.
LastDoubleDelta ==
    U64Sub(U64Sub(last.timestamp, last.pre.prevTimestamp), last.pre.prevTimestampDelta)

\* x is in [-2^(n-1), 2^(n-1) - 1]: bits n-1 .. 63 of x all equal the sign bit.
FitsSigned(x, n) == \A i \in (n - 1)..63 : (i \in x) <=> (63 \in x)

\* The rows of the prefix table: <<width, number of 1-bits of the prefix,
\* bits of prefix plus width>>.
PrefixTable ==
    << <<5, 1, 7>>, <<8, 2, 11>>, <<11, 3, 15>>, <<15, 4, 20>>, <<32, 5, 38>> >>

\* The row of the smallest bucket that contains D.
SmallestBucket(D) ==
    IF D = Zero THEN <<0, 0, 1>>
    ELSE IF \E k \in 1..5 : FitsSigned(D, PrefixTable[k][1])
    THEN PrefixTable[SetMin({k \in 1..5 : FitsSigned(D, PrefixTable[k][1])})]
    ELSE <<64, 6, 70>>

LastXor == U64Xor(last.value, last.pre.prevValue)
LastLeading == IF 63 - SetMax(LastXor) > 31 THEN 31 ELSE 63 - SetMax(LastXor)
LastTrailing == SetMin(LastXor)
LastBlock == 64 - LastLeading - LastTrailing
LastPrevBlock == 64 - last.pre.prevLeading - last.pre.prevTrailing
LastFitsWindow ==
    /\ Encoded
    /\ LastXor # Zero
    /\ LastLeading >= last.pre.prevLeading
    /\ LastTrailing >= last.pre.prevTrailing
ReusedWindow ==
    /\ last.br = "prev"
    /\ chunk.idx = last.pre.idx + last.tsBits + 2 + LastPrevBlock
    /\ chunk.prevLeading = last.pre.prevLeading
    /\ chunk.prevTrailing = last.pre.prevTrailing

\* C5 as stated: the previous window is reused whenever it takes no more bits
\* than a new window, equality included (1 + 1 + b' <= 1 + 1 + 5 + 6 + b).
C5_ReuseWhenNoWorse ==
    (LastFitsWindow /\ 2 + LastPrevBlock <= 2 + 5 + 6 + LastBlock) => ReusedWindow

\* C5 amended: the previous window is reused whenever it takes strictly fewer
\* bits than a new window (b' < 5 + 6 + b); at equality a new window is emitted.
C5_ReuseWhenShorter ==
    /\ (LastFitsWindow /\ LastPrevBlock < 5 + 6 + LastBlock) => ReusedWindow
    /\ (LastFitsWindow /\ LastPrevBlock = 5 + 6 + LastBlock) =>
           /\ last.br = "new"
           /\ chunk.prevLeading = LastLeading
           /\ chunk.prevTrailing = LastTrailing

\* C5 witness: a reuse of a window that an earlier append emitted.
C5_Witness ==
    /\ LastFitsWindow
    /\ LastPrevBlock < 5 + 6 + LastBlock
    /\ LastPrevBlock < 64
    /\ last.br = "prev"

\* C6: cursor bound.  After every call idx <= 8 * size, and no appendBits ever
\* moved the cursor beyond 8 * size.
C6_CursorBound ==
    /\ chunk.idx <= 8 * chunk.size
    /\ chunk.hiwater <= 8 * chunk.size

\* C6 witness: an accepted append whose last bit is the last bit of the buffer.
C6_Witness ==
    /\ Appended(CR_OK)
    /\ last.pre.idx < chunk.idx
    /\ chunk.idx = 8 * chunk.size
    /\ chunk.hiwater = 8 * chunk.size

\* C7 as stated: every append that returns CR_OK leaves idx strictly greater,
\* the first append to an empty chunk included.
C7_CursorGrowsAlways == Appended(CR_OK) => chunk.idx > last.pre.idx

\* C7 amended: an append that returns CR_OK on a chunk that holds a sample
\* leaves idx greater by at least 2 bits; the first append to an empty chunk
\* leaves idx = 0.
C7_CursorGrows ==
    Appended(CR_OK) =>
        IF last.pre.numSamples = 0
        THEN chunk.idx = 0 /\ last.pre.idx = 0
        ELSE chunk.idx >= last.pre.idx + 2

\* C7 witness: an append that costs exactly 2 bits.
C7_Witness == Encoded /\ chunk.idx = last.pre.idx + 2

\* The accepted samples are a regular series: one value, timestamps spaced by
\* one step d > 0.
RegularStep(d) ==
    /\ d # Zero
    /\ \A i \in 2..Len(accepted) :
          /\ accepted[i][2] = accepted[1][2]
          /\ accepted[i][1] = U64Add(accepted[i - 1][1], d)
Regular == Len(accepted) >= 1 /\ \E d \in Deltas : RegularStep(d)

\* C8 as stated: in a regular series the first append writes nothing and every
\* later successful append adds exactly 2 bits, so idx = 4 after three.
C8_TwoBitsEach ==
    (Appended(CR_OK) /\ Regular) =>
        /\ Len(accepted) = 1 => chunk.idx = 0
        /\ Len(accepted) >= 2 => chunk.idx = last.pre.idx + 2
        /\ Len(accepted) = 3 => chunk.idx = 4

\* C8 amended: in a regular series the first append writes nothing, the second
\* encodes the delta-of-delta d (its bucket's bits plus 1 bit for XOR 0, more
\* than 2 bits), and every later successful append adds exactly 2 bits.
C8_TwoBitsFromThird ==
    (Appended(CR_OK) /\ Regular) =>
        /\ Len(accepted) = 1 => chunk.idx = 0 /\ chunk.data = {}
        /\ Len(accepted) = 2 =>
               \A d \in Deltas : RegularStep(d) =>
                   chunk.idx = SmallestBucket(d)[3] + 1 /\ chunk.idx > 2
        /\ Len(accepted) >= 3 => chunk.idx = last.pre.idx + 2

\* C8 witness: three samples spaced by 1; idx = 8 + 2.
C8_Witness ==
    /\ Appended(CR_OK)
    /\ Len(accepted) = 3
    /\ RegularStep(One)
    /\ chunk.idx = 10

\* C9: window invariant and assertion validity.  prevLeading <= 31,
\* prevLeading + prevTrailing <= 64, every emitted block width is in 1..64, and
\* no assertion of appendFloat or readFloat fails.
C9_WindowAndAssertions ==
    /\ chunk.prevLeading <= 31
    /\ chunk.prevLeading + chunk.prevTrailing <= 64
    /\ (Encoded /\ last.br = "prev") =>
           (chunk.idx - last.pre.idx - last.tsBits - 2) \in 1..64
    /\ (Encoded /\ last.br = "new") =>
           (chunk.idx - last.pre.idx - last.tsBits - 2 - 5 - 6) \in 1..64
    /\ phase # "abort"

\* C10: recovery after a failed append.  Whatever appends were refused, a fresh
\* iterator returns exactly the accepted samples, in order, never fails an
\* assertion and never moves its cursor beyond idx.
C10_RecoveryAfterFailure ==
    /\ phase \notin {"abort", "wild"}
    /\ phase \in {"read", "end"} =>
           /\ IsPrefix(out, accepted)
           /\ iter.idx <= chunk.idx
    /\ phase = "end" => out = accepted

\* The last call was an accepted append with a non-zero XOR on a chunk on
\* which no accepted append had emitted a new window yet.
FirstWindowCase ==
    /\ Encoded
    /\ LastXor # Zero
    /\ ~last.preWindowed

\* C11 as stated: no reuse before a window exists.  The reuse branch is taken
\* only after an earlier append of the chunk emitted a new window.
C11_NoReuseBeforeWindow ==
    (Encoded /\ last.br = "prev") => last.preWindowed

\* C11 amended: before any window was emitted the window is the initial
\* (0, 0), 64 bits wide.  A non-zero XOR of block size b is then encoded with
\* the reuse branch exactly when 5 + 6 + b > 64 (b >= 54): the 64 bits of the
\* XOR follow the two control bits and prevLeading = prevTrailing = 0 stay;
\* with b <= 53 a new window is emitted.
C11_ReuseOfInitialWindow ==
    FirstWindowCase =>
        /\ last.pre.prevLeading = 0 /\ last.pre.prevTrailing = 0
        /\ (last.br = "prev") <=> (LastBlock >= 54)
        /\ (last.br = "new") <=> (LastBlock <= 53)
        /\ last.br = "prev" =>
               /\ chunk.idx = last.pre.idx + last.tsBits + 2 + 64
               /\ chunk.prevLeading = 0 /\ chunk.prevTrailing = 0
               /\ ~windowed
        /\ last.br = "new" =>
               /\ chunk.idx = last.pre.idx + last.tsBits + 2 + 5 + 6 + LastBlock
               /\ chunk.prevLeading = LastLeading
               /\ chunk.prevTrailing = LastTrailing
               /\ windowed

\* C11 witness: the first non-zero XOR of a chunk, 54 bits wide, encoded with
\* the reuse branch.
C11_Witness ==
    /\ FirstWindowCase
    /\ LastBlock = 54
    /\ last.br = "prev"

==========================================================================
